---- MODULE Spec2Model ----
(***************************************************************************)
(* Model of the hello-asso client library (src/src/client.rs): the         *)
(* HelloAssoBuilder (get_token, config_client, build), the HelloAsso       *)
(* client (new, refresh_token) and the answers of the OAuth2 token         *)
(* endpoint they react to.                                                 *)
(*                                                                         *)
(* Option<T> is modelled as a sequence: << >> is None, <<x>> is Some(x).   *)
(* SystemTime is a number of seconds since UNIX_EPOCH. A panic             *)
(* (unimplemented!, expect, overflow of SystemTime + Duration) unwinds     *)
(* through the single owner of the value: the state at the panic is kept   *)
(* as the last state and no further operation runs.                        *)
(***************************************************************************)
EXTENDS Integers, Sequences

\* ---------------------------------------------------------------- bounds
\* Latest reading of the system clock the model explores.
MaxNow == 2
\* Largest number of requests sent to the token endpoint in one run.
MaxSent == 2

\* ------------------------------------------------------- program constants
\* SystemTime::UNIX_EPOCH
UNIX_EPOCH == 0
\* Largest number of seconds a SystemTime can hold (i64::MAX, scaled down
\* to a 5 bit signed integer).
SystemTimeMax == 15
\* Largest expires_in the response can carry (u64::MAX, scaled down to a
\* 5 bit unsigned integer): it does not fit in a SystemTime.
U64Max == 31

\* ------------------------------------------------------------ Option<T>
None == << >>
Some(x) == <<x>>
unwrap_or(o, d) == IF o = None THEN d ELSE o[1]

\* ----------------------------------------------------------- input sets
\* client_id / client_secret: the registered value and the "abc" of the tests.
ClientIds == {"valid_id", "abc"}
ClientSecrets == {"valid_secret", "abc"}
\* The access and refresh tokens the endpoint may issue together: non-empty
\* opaque strings; a new answer may repeat the access token, the refresh
\* token, both or neither. "T\n" stands for an access token holding a byte
\* that is not allowed in an HTTP header value.
TokenPairs ==
    { <<"T0", "R0">>, <<"T0", "R1">>, <<"T1", "R1">>, <<"T\n", "R0">> }
AccessTokens == { p[1] : p \in TokenPairs }
RefreshTokens == { p[2] : p \in TokenPairs }
\* expires_in values of a response: zero, an ordinary lifetime, u64::MAX.
ExpiresIn == {0, 1, U64Max}

\* The token part of a JSON body.
TokenPart(pair, token_type, expires_in) ==
    [access_token |-> pair[1], refresh_token |-> pair[2],
     token_type |-> token_type, expires_in |-> expires_in]
TokenParts ==
    { TokenPart(p, Some("bearer"), e) : p \in TokenPairs, e \in ExpiresIn }
\* A token part whose token_type field is missing.
UntypedTokenPart == TokenPart(<<"T1", "R1">>, None, 1)
\* The error part of a JSON body (error.rs: the API answers
\* unauthorized_client for a wrong client_id and for a wrong client_secret).
UnauthorizedClient ==
    [error |-> "unauthorized_client", error_description |-> "Invalid client_id"]
InvalidGrant ==
    [error |-> "invalid_grant", error_description |-> "Invalid refresh_token"]
ErrorParts == {UnauthorizedClient, InvalidGrant}
\* A JSON body: the fields of a token answer, of an error answer, of both,
\* or of neither.
Bodies ==
    { [tok |-> Some(t), err |-> None] : t \in TokenParts \cup {UntypedTokenPart} }
    \cup { [tok |-> None, err |-> Some(e)] : e \in ErrorParts }
    \cup { [tok |-> Some(TokenPart(<<"T1", "R1">>, Some("bearer"), 1)),
            err |-> Some(UnauthorizedClient)],
          [tok |-> None, err |-> None] }
StatusCodes == {200, 400, 500}
\* What .send().await gives: a transport failure, or a status and a body.
SendFailure == [sent_ok |-> FALSE, status |-> 0, body |-> [tok |-> None, err |-> None]]
Responses == {SendFailure} \cup [sent_ok : {TRUE}, status : StatusCodes, body : Bodies]

\* --------------------------------------------------------------- results
Ok == [kind |-> "Ok", err |-> None]
Panic == [kind |-> "Panic", err |-> None]
ReqwestErr == [kind |-> "ReqwestErr", err |-> None]
DecodeErr == [kind |-> "DecodeErr", err |-> None]
AuthErr(e) == [kind |-> "AuthErr", err |-> Some(e)]
NoResult == [kind |-> "None", err |-> None]

\* ------------------------------------------------------------- decoding
\* response.json::<AccessTokenResponse>(): all four fields are required.
DecodesAccessTokenResponse(body) ==
    body.tok # None /\ body.tok[1].token_type # None
\* response.json::<RefreshToken>(): token_type is not a field of RefreshToken.
DecodesRefreshToken(body) == body.tok # None
\* response.json::<AuthenticationError>()
DecodesAuthenticationError(body) == body.err # None

\* SystemTime::now() + Duration::from_secs(expires_in) panics on overflow.
AddOverflows(t, secs) == t + secs > SystemTimeMax

\* format!("Bearer {}", access_token)
Bearer(token) == <<"Bearer ", token>>
\* .parse::<HeaderValue>() fails on bytes that a header value cannot hold.
ParsesAsHeaderValue(h) == h[2] # "T\n"

\* reqwest::Client: its default headers (only Authorization matters here).
DefaultClient == [authorization |-> None]
ClientWith(headers) == [authorization |-> Some(headers)]

\* ------------------------------------------------------------ operations
\* HelloAsso::builder
builder(client_id, client_secret) ==
    [client_id |-> client_id, client_secret |-> client_secret,
     access_token |-> None, refresh_token |-> None, token_type |-> None,
     token_outdated_after |-> None, client |-> None]

\* Variant of on_ok: the expiry is the issue time, the lifetime is not added.
on_ok_without_lifetime(self, body, t) ==
    IF ~DecodesAccessTokenResponse(body) THEN [self |-> self, res |-> DecodeErr]
    ELSE LET token == body.tok[1]
         IN IF AddOverflows(t, token.expires_in)
            THEN [self |-> [self EXCEPT
                               !.access_token = Some(token.access_token),
                               !.refresh_token = Some(token.refresh_token),
                               !.token_type = token.token_type],
                  res |-> Panic]
            ELSE [self |-> [self EXCEPT
                               !.access_token = Some(token.access_token),
                               !.refresh_token = Some(token.refresh_token),
                               !.token_type = token.token_type,
                               !.token_outdated_after = Some(t)],
                  res |-> Ok]

\* get_token, StatusCode::OK: decode the AccessTokenResponse and fill the
\* builder. The three tokens fields are assigned before the expiry is
\* computed, and that addition may panic.
on_ok(self, body, t) ==
    IF ~DecodesAccessTokenResponse(body) THEN [self |-> self, res |-> DecodeErr]
    ELSE LET token == body.tok[1]
             filled == [self EXCEPT !.access_token = Some(token.access_token),
                                    !.refresh_token = Some(token.refresh_token),
                                    !.token_type = token.token_type]
         IN IF AddOverflows(t, token.expires_in)
            THEN [self |-> filled, res |-> Panic]
            ELSE [self |-> [filled EXCEPT !.token_outdated_after =
                                             Some(t + token.expires_in)],
                  res |-> Ok]

\* Variant of on_bad_request: an authentication failure also drops the tokens
\* of an earlier fetch.
on_bad_request_clears(self, body) ==
    IF ~DecodesAuthenticationError(body) THEN [self |-> self, res |-> DecodeErr]
    ELSE [self |-> [self EXCEPT !.access_token = None, !.refresh_token = None],
          res |-> AuthErr(body.err[1])]

\* Variant of on_bad_request: every 400 is reported as unauthorized_client,
\* whatever the body says.
on_bad_request_fixed(self, body) ==
    [self |-> self, res |-> AuthErr(UnauthorizedClient)]

\* get_token, StatusCode::BAD_REQUEST: decode the AuthenticationError.
on_bad_request(self, body) ==
    IF ~DecodesAuthenticationError(body) THEN [self |-> self, res |-> DecodeErr]
    ELSE [self |-> self, res |-> AuthErr(body.err[1])]

\* Variant of on_other_status: the unknown status is ignored and the call
\* goes on as if it had succeeded.
on_other_status_continues(self) == [self |-> self, res |-> Ok]

\* get_token, any other status: unimplemented!()
on_other_status(self) == [self |-> self, res |-> Panic]

\* Variant of get_token: a failed attempt is retried once.
get_token_retries(self, resp, t) ==
    LET r == IF ~resp.sent_ok THEN [self |-> self, res |-> ReqwestErr]
             ELSE IF resp.status = 200 THEN on_ok(self, resp.body, t)
             ELSE IF resp.status = 400 THEN on_bad_request(self, resp.body)
             ELSE on_other_status(self)
    IN [self |-> r.self, res |-> r.res,
        sends |-> IF r.res.kind \in {"ReqwestErr", "DecodeErr"} THEN 2 ELSE 1]

\* HelloAssoBuilder::get_token with the endpoint's answer resp and the
\* reading t of SystemTime::now(). Gives the builder afterwards, the result
\* and the number of requests sent.
get_token(self, resp, t) ==
    LET r == IF ~resp.sent_ok THEN [self |-> self, res |-> ReqwestErr]
             ELSE IF resp.status = 200 THEN on_ok(self, resp.body, t)
             ELSE IF resp.status = 400 THEN on_bad_request(self, resp.body)
             ELSE on_other_status(self)
    IN [self |-> r.self, res |-> r.res, sends |-> 1]

\* Variant of config_client: a missing access token is replaced by the empty
\* string (unwrap_or_default in place of expect).
config_client_unwrap_or_default(self, build_ok) ==
    LET value == Bearer(unwrap_or(self.access_token, ""))
    IN IF ~ParsesAsHeaderValue(value) THEN [self |-> self, res |-> Panic]
       ELSE IF ~build_ok THEN [self |-> self, res |-> ReqwestErr]
       ELSE [self |-> [self EXCEPT !.client = Some(ClientWith(value))],
             res |-> Ok]

\* HelloAssoBuilder::config_client; build_ok tells whether
\* reqwest::Client::builder().build() succeeds.
config_client(self, build_ok) ==
    IF self.access_token = None THEN [self |-> self, res |-> Panic]
    ELSE LET value == Bearer(self.access_token[1])
         IN IF ~ParsesAsHeaderValue(value) THEN [self |-> self, res |-> Panic]
            ELSE IF ~build_ok THEN [self |-> self, res |-> ReqwestErr]
            ELSE [self |-> [self EXCEPT !.client = Some(ClientWith(value))],
                  res |-> Ok]

\* Variant of build: without a configured transport every field takes its
\* default.
build_all_or_nothing(self) ==
    IF self.client = None
    THEN [client_id |-> self.client_id, client_secret |-> self.client_secret,
          access_token |-> "", refresh_token |-> "",
          token_outdated_after |-> UNIX_EPOCH, client |-> DefaultClient]
    ELSE [client_id |-> self.client_id, client_secret |-> self.client_secret,
          access_token |-> unwrap_or(self.access_token, ""),
          refresh_token |-> unwrap_or(self.refresh_token, ""),
          token_outdated_after |-> unwrap_or(self.token_outdated_after, UNIX_EPOCH),
          client |-> self.client[1]]

\* Variant of build: the configured transport is dropped, the client gets a
\* default one.
build_default_transport(self) ==
    [client_id |-> self.client_id, client_secret |-> self.client_secret,
     access_token |-> unwrap_or(self.access_token, ""),
     refresh_token |-> unwrap_or(self.refresh_token, ""),
     token_outdated_after |-> unwrap_or(self.token_outdated_after, UNIX_EPOCH),
     client |-> DefaultClient]

\* HelloAssoBuilder::build
build(self) ==
    [client_id |-> self.client_id,
     client_secret |-> self.client_secret,
     access_token |-> unwrap_or(self.access_token, ""),
     refresh_token |-> unwrap_or(self.refresh_token, ""),
     token_outdated_after |-> unwrap_or(self.token_outdated_after, UNIX_EPOCH),
     client |-> unwrap_or(self.client, DefaultClient)]

\* Variant of fill_data: the refresh token of the response is not stored.
fill_data_keeps_refresh_token(self, token, t) ==
    IF AddOverflows(t, token.expires_in)
    THEN [self |-> [self EXCEPT !.access_token = token.access_token],
          res |-> Panic]
    ELSE [self |-> [self EXCEPT !.access_token = token.access_token,
                                !.token_outdated_after = t + token.expires_in],
          res |-> Ok]

\* Variant of fill_data: the transport is rebuilt with the new access token.
fill_data_reconfigures(self, token, t) ==
    IF AddOverflows(t, token.expires_in)
    THEN [self |-> [self EXCEPT !.access_token = token.access_token,
                                !.refresh_token = token.refresh_token],
          res |-> Panic]
    ELSE [self |-> [self EXCEPT !.access_token = token.access_token,
                                !.refresh_token = token.refresh_token,
                                !.token_outdated_after = t + token.expires_in,
                                !.client = ClientWith(Bearer(token.access_token))],
          res |-> Ok]

\* refresh_token, "Fill data": the two tokens are assigned before the expiry
\* is computed, and that addition may panic.
fill_data(self, token, t) ==
    LET filled == [self EXCEPT !.access_token = token.access_token,
                               !.refresh_token = token.refresh_token]
    IN IF AddOverflows(t, token.expires_in)
       THEN [self |-> filled, res |-> Panic]
       ELSE [self |-> [filled EXCEPT !.token_outdated_after =
                                        t + token.expires_in],
             res |-> Ok]

\* HelloAsso::refresh_token: the status of the answer is not looked at, the
\* body is decoded as a RefreshToken whatever it is.
refresh_token(self, resp, t) ==
    LET r == IF ~resp.sent_ok THEN [self |-> self, res |-> ReqwestErr]
             ELSE IF ~DecodesRefreshToken(resp.body)
             THEN [self |-> self, res |-> DecodeErr]
             ELSE fill_data(self, resp.body.tok[1], t)
    IN [self |-> r.self, res |-> r.res, sends |-> 1]

\* HelloAsso::new: builder(..).get_token().await?.config_client()?.build()
new(client_id, client_secret, resp, t, build_ok) ==
    LET got == get_token(builder(client_id, client_secret), resp, t)
        configured == config_client(got.self, build_ok)
    IN IF got.res # Ok
       THEN [client |-> None, res |-> got.res, sends |-> got.sends]
       ELSE IF configured.res # Ok
       THEN [client |-> None, res |-> configured.res, sends |-> got.sends]
       ELSE [client |-> Some(build(configured.self)), res |-> Ok,
             sends |-> got.sends]

\* ----------------------------------------------------------------- state
VARIABLES
    b,          \* the caller's HelloAssoBuilder
    c,          \* the caller's HelloAsso client: None until one is produced
    now,        \* the system clock, seconds since UNIX_EPOCH
    sent,       \* requests sent to the token endpoint so far
    panicked,   \* an operation panicked
    fetched,    \* a get_token of the caller's builder has returned Ok
    last_op,    \* the operation of the last step
    last_res,   \* what it returned
    last_resp   \* the endpoint's answer it received: None if it sent no request

vars == <<b, c, now, sent, panicked, fetched, last_op, last_res, last_resp>>

Init ==
    /\ \E id \in ClientIds, secret \in ClientSecrets : b = builder(id, secret)
    /\ c = None
    /\ now = 1
    /\ sent = 0
    /\ panicked = FALSE
    /\ fetched = FALSE
    /\ last_op = "builder"
    /\ last_res = NoResult
    /\ last_resp = None

\* builder.get_token().await
GetToken ==
    /\ ~panicked /\ sent < MaxSent
    /\ \E resp \in Responses :
        LET r == get_token(b, resp, now)
        IN /\ b' = r.self
           /\ fetched' = (fetched \/ r.res = Ok)
           /\ sent' = sent + r.sends
           /\ panicked' = (r.res = Panic)
           /\ last_op' = "get_token"
           /\ last_res' = r.res
           /\ last_resp' = Some(resp)
    /\ UNCHANGED <<c, now>>

\* builder.config_client()
ConfigClient ==
    /\ ~panicked
    /\ \E build_ok \in BOOLEAN :
        LET r == config_client(b, build_ok)
        IN /\ b' = r.self
           /\ panicked' = (r.res = Panic)
           /\ last_op' = "config_client"
           /\ last_res' = r.res
    /\ last_resp' = None
    /\ UNCHANGED <<c, now, sent, fetched>>

\* client = builder.build()
Build ==
    /\ ~panicked
    /\ c' = Some(build(b))
    /\ last_op' = "build"
    /\ last_res' = Ok
    /\ last_resp' = None
    /\ UNCHANGED <<b, now, sent, panicked, fetched>>

\* client.refresh_token().await
RefreshToken ==
    /\ ~panicked /\ sent < MaxSent
    /\ c # None
    /\ \E resp \in Responses :
        LET r == refresh_token(c[1], resp, now)
        IN /\ c' = Some(r.self)
           /\ sent' = sent + r.sends
           /\ panicked' = (r.res = Panic)
           /\ last_op' = "refresh_token"
           /\ last_res' = r.res
           /\ last_resp' = Some(resp)
    /\ UNCHANGED <<b, now, fetched>>

\* client = HelloAsso::new(client_id, client_secret).await?, with the
\* credentials the caller also gave its builder.
New ==
    /\ ~panicked /\ sent < MaxSent
    /\ \E resp \in Responses, build_ok \in BOOLEAN :
        LET r == new(b.client_id, b.client_secret, resp, now, build_ok)
        IN /\ c' = IF r.res = Ok THEN r.client ELSE c
           /\ sent' = sent + r.sends
           /\ panicked' = (r.res = Panic)
           /\ last_op' = "new"
           /\ last_res' = r.res
           /\ last_resp' = Some(resp)
    /\ UNCHANGED <<b, now, fetched>>

\* The system clock advances between operations.
Tick ==
    /\ ~panicked /\ now < MaxNow
    /\ now' = now + 1
    /\ last_op' = "tick"
    /\ last_res' = NoResult
    /\ last_resp' = None
    /\ UNCHANGED <<b, c, sent, panicked, fetched>>

Next == GetToken \/ ConfigClient \/ Build \/ RefreshToken \/ New \/ Tick

Spec == Init /\ [][Next]_vars

\* The builder alone: fetch, configure, assemble.
NextBuilder == GetToken \/ ConfigClient \/ Build \/ Tick
SpecBuilder == Init /\ [][NextBuilder]_vars

\* The explicit lifecycle: fetch, configure, assemble, then refreshes of the
\* assembled client.
NextLifecycle == GetToken \/ ConfigClient \/ Build \/ RefreshToken \/ Tick
SpecLifecycle == Init /\ [][NextLifecycle]_vars

\* The client alone: HelloAsso::new, then refreshes.
NextClient == New \/ RefreshToken \/ Tick
SpecClient == Init /\ [][NextClient]_vars

\* ================================================================ claims
\* The results that are returned errors (Err(..)), as opposed to Ok and to
\* a panic.
ErrorKinds == {"ReqwestErr", "DecodeErr", "AuthErr"}
\* Access token, refresh token and expiry of a builder or of a client.
TokenState(x) == <<x.access_token, x.refresh_token, x.token_outdated_after>>

\* C1: a get_token or a refresh_token that returns an error leaves access
\* token, refresh token and expiry as they were before the call; one that
\* returns Ok has replaced all three from the one response it received; a
\* refresh answered 400 with an error body (stale refresh token) returns an
\* error and leaves the client unchanged.
C1_Step ==
    /\ (last_op' = "get_token" /\ last_res'.kind \in ErrorKinds)
          => TokenState(b') = TokenState(b)
    /\ (last_op' = "get_token" /\ last_res' = Ok)
          => LET token == last_resp'[1].body.tok[1]
             IN TokenState(b') = << Some(token.access_token),
                                    Some(token.refresh_token),
                                    Some(now + token.expires_in) >>
    /\ (last_op' = "refresh_token" /\ last_res'.kind \in ErrorKinds)
          => TokenState(c'[1]) = TokenState(c[1])
    /\ (last_op' = "refresh_token" /\ last_res' = Ok)
          => LET token == last_resp'[1].body.tok[1]
             IN TokenState(c'[1]) = << token.access_token, token.refresh_token,
                                       now + token.expires_in >>
    /\ (/\ last_op' = "refresh_token"
        /\ last_resp'[1].sent_ok /\ last_resp'[1].status = 400
        /\ last_resp'[1].body.tok = None)
          => last_res'.kind \in ErrorKinds /\ c' = c
C1_TokenStateNeverPartial == [][C1_Step]_vars

\* A client holding fetched tokens whose refresh was answered 400 with an
\* error body.
C1_Witness ==
    /\ last_op = "refresh_token" /\ last_res = DecodeErr
    /\ last_resp[1].status = 400 /\ last_resp[1].body.err = Some(InvalidGrant)
    /\ c[1].access_token \in AccessTokens
    /\ b.access_token # None

\* C2: whenever the endpoint answers 400 with a decodable error body,
\* HelloAsso::new fails with AuthErr carrying the body's error and
\* error_description unchanged, whatever the client_id and client_secret
\* are (a wrong id and a wrong secret give the same result); get_token
\* stores no token and no client is produced.
C2_Step ==
    (/\ last_op' = "new"
     /\ last_resp'[1].sent_ok /\ last_resp'[1].status = 400
     /\ last_resp'[1].body.err # None)
    => /\ last_res'.kind = "AuthErr"
       /\ last_res'.err = Some(last_resp'[1].body.err[1])
       /\ c' = c
       /\ \A id \in ClientIds, secret \in ClientSecrets :
             /\ new(id, secret, last_resp'[1], now, TRUE).res = last_res'
             /\ new(id, secret, last_resp'[1], now, TRUE).client = None
             /\ get_token(builder(id, secret), last_resp'[1], now).self
                   = builder(id, secret)
C2_InvalidCredentialsAuthErr == [][C2_Step]_vars

\* HelloAsso::new with a wrong client_secret, answered unauthorized_client.
C2_Witness ==
    /\ last_op = "new" /\ last_res = AuthErr(UnauthorizedClient)
    /\ b.client_id = "valid_id" /\ b.client_secret = "abc"
    /\ c = None

\* C3: on a status other than 200 and 400 get_token panics: it returns
\* neither Ok nor an Error value, and the builder is left as it was.
C3_Step ==
    (/\ last_op' = "get_token"
     /\ last_resp'[1].sent_ok /\ last_resp'[1].status \notin {200, 400})
    => /\ last_res' = Panic /\ panicked'
       /\ last_res'.kind \notin ({"Ok"} \cup ErrorKinds)
       /\ b' = b /\ fetched' = fetched
C3_OtherStatusFatal == [][C3_Step]_vars

\* A get_token answered 500 with a complete token body.
C3_Witness ==
    /\ last_op = "get_token" /\ panicked
    /\ last_resp[1].status = 500
    /\ DecodesAccessTokenResponse(last_resp[1].body)

\* C4: while no get_token of the builder has returned Ok, the builder has no
\* transport and config_client does not succeed (it panics) and sets none;
\* a config_client that succeeds sets a transport whose Authorization header
\* is "Bearer " + the access token, so no transport of the builder lacks it.
C4_Step ==
    /\ ~fetched => b.client = None
    /\ (last_op' = "config_client" /\ ~fetched)
          => last_res' = Panic /\ b'.client = None
    /\ (last_op' = "config_client" /\ last_res' = Ok)
          => b'.client = Some(ClientWith(Bearer(b.access_token[1])))
    /\ b'.client # None => b'.client[1].authorization # None
C4_NoTransportBeforeToken == [][C4_Step]_vars

\* config_client called after a get_token that failed with an error.
C4_Witness ==
    /\ last_op = "config_client" /\ last_res = Panic
    /\ ~fetched /\ sent >= 1
    /\ b.client = None

\* C5 as stated: a 200 answer with a decodable body, whatever its expires_in,
\* makes get_token return Ok with an access token, a refresh token and an
\* expiry strictly after the time at which get_token returns.
C5_Original ==
    (/\ last_op = "get_token"
     /\ last_resp[1].sent_ok /\ last_resp[1].status = 200
     /\ DecodesAccessTokenResponse(last_resp[1].body))
    => /\ last_res = Ok
       /\ b.access_token # None /\ b.refresh_token # None
       /\ b.token_outdated_after # None
       /\ b.token_outdated_after[1] > now

\* C5 amended: a 200 answer with a decodable body whose expires_in, added to
\* the issue time, fits a SystemTime makes get_token return Ok with the
\* access and refresh token of the response and expiry = issue time +
\* expires_in; that expiry is strictly in the future exactly when expires_in
\* is at least 1. An expires_in that does not fit makes get_token panic
\* without an expiry of that response.
C5_ExpiryIsIssueTimePlusLifetime ==
    (/\ last_op = "get_token"
     /\ last_resp[1].sent_ok /\ last_resp[1].status = 200
     /\ DecodesAccessTokenResponse(last_resp[1].body))
    => LET token == last_resp[1].body.tok[1]
       IN IF now + token.expires_in <= SystemTimeMax
          THEN /\ last_res = Ok
               /\ b.access_token = Some(token.access_token)
               /\ b.refresh_token = Some(token.refresh_token)
               /\ b.token_outdated_after = Some(now + token.expires_in)
               /\ (b.token_outdated_after[1] > now) <=> (token.expires_in >= 1)
          ELSE /\ last_res = Panic
               /\ b.token_outdated_after # Some(now + token.expires_in)

\* A fetch whose expiry is strictly in the future.
C5_Witness ==
    /\ last_op = "get_token" /\ last_res = Ok
    /\ last_resp[1].body.tok[1].expires_in = 1
    /\ b.token_outdated_after = Some(now + 1)

\* C6 as stated: a refresh_token that returns Ok has stored the tokens of the
\* response, its expiry is strictly later than the previous one and its
\* access token is not the previous one.
C6_OriginalStep ==
    (last_op' = "refresh_token" /\ last_res' = Ok)
    => LET token == last_resp'[1].body.tok[1]
       IN /\ c'[1].access_token = token.access_token
          /\ c'[1].refresh_token = token.refresh_token
          /\ c'[1].token_outdated_after > c[1].token_outdated_after
          /\ c'[1].access_token # c[1].access_token
C6_Original == [][C6_OriginalStep]_vars

\* C6 amended: a refresh_token that returns Ok has stored the access and
\* refresh token of the response and expiry = time of the refresh +
\* expires_in of the response, leaving client_id and client_secret alone.
\* The expiry moves forward only if that sum exceeds the previous expiry,
\* the access token changes only if the response carries another one.
C6_AmendedStep ==
    (last_op' = "refresh_token" /\ last_res' = Ok)
    => LET token == last_resp'[1].body.tok[1]
       IN /\ c'[1].access_token = token.access_token
          /\ c'[1].refresh_token = token.refresh_token
          /\ c'[1].token_outdated_after = now + token.expires_in
          /\ c'[1].token_outdated_after >= now
          /\ c'[1].client_id = c[1].client_id
          /\ c'[1].client_secret = c[1].client_secret
C6_RefreshStoresResponse == [][C6_AmendedStep]_vars

\* A refresh at the latest time that replaced T0/R0 by T1/R1 with a lifetime
\* of 1.
C6_Witness ==
    /\ last_op = "refresh_token" /\ last_res = Ok
    /\ c[1].client.authorization = Some(Bearer("T0"))
    /\ c[1].access_token = "T1" /\ c[1].refresh_token = "R1"
    /\ now = MaxNow /\ c[1].token_outdated_after = now + 1

\* C7: config_client bakes "Bearer " + the access token the builder holds at
\* that call into the transport; get_token does not touch the builder's
\* transport, build hands it to the client, and refresh_token, successful or
\* not, leaves the client's transport and its header unchanged.
C7_Step ==
    /\ (last_op' = "config_client" /\ last_res' = Ok)
          => b'.client = Some(ClientWith(Bearer(b.access_token[1])))
    /\ (last_op' = "config_client" /\ last_res' # Ok) => b'.client = b.client
    /\ last_op' = "get_token" => b'.client = b.client
    /\ (last_op' = "build" /\ b.client # None) => c'[1].client = b.client[1]
    /\ last_op' = "refresh_token" => c'[1].client = c[1].client
C7_HeaderFixedAtConfigTime == [][C7_Step]_vars

\* After a successful refresh the header still carries T0 while the stored
\* access token is T1.
C7_Witness ==
    /\ last_op = "refresh_token" /\ last_res = Ok
    /\ c[1].access_token = "T1"
    /\ c[1].client.authorization = Some(Bearer("T0"))

\* C8: a client returned Ok by HelloAsso::new (builder, get_token,
\* config_client, build) has a transport whose Authorization header is
\* "Bearer " + the access token of that fetch, which is its stored access
\* token, a refresh token that is not the default and an expiry that is not
\* the epoch.
C8_NewClientIsAuthenticated ==
    (last_op = "new" /\ last_res = Ok)
    => LET token == last_resp[1].body.tok[1]
       IN /\ c # None
          /\ c[1].access_token = token.access_token
          /\ c[1].client.authorization = Some(Bearer(token.access_token))
          /\ c[1].client.authorization = Some(<<"Bearer ", c[1].access_token>>)
          /\ c[1].refresh_token = token.refresh_token
          /\ c[1].refresh_token # ""
          /\ c[1].token_outdated_after = now + token.expires_in
          /\ c[1].token_outdated_after # UNIX_EPOCH
          /\ c[1].client_id = b.client_id
          /\ c[1].client_secret = b.client_secret

\* A client just returned by HelloAsso::new.
C8_Witness ==
    /\ last_op = "new" /\ last_res = Ok
    /\ c[1].access_token = "T0"
    /\ c[1].client.authorization = Some(Bearer("T0"))

\* C9: build always returns a client and leaves the builder as it is; the
\* client has the builder's client_id and client_secret, and each other
\* field is the builder's value if it has one and else, independently of the
\* other fields, its default: "" for the tokens, the epoch for the expiry, a
\* transport without Authorization header.
C9_Step ==
    /\ ~panicked => ENABLED Build
    /\ last_op' = "build"
          => /\ last_res' = Ok /\ ~panicked'
             /\ b' = b
             /\ c' # None
             /\ c'[1].client_id = b.client_id
             /\ c'[1].client_secret = b.client_secret
             /\ c'[1].access_token =
                    IF b.access_token = None THEN "" ELSE b.access_token[1]
             /\ c'[1].refresh_token =
                    IF b.refresh_token = None THEN "" ELSE b.refresh_token[1]
             /\ c'[1].token_outdated_after =
                    IF b.token_outdated_after = None THEN 0
                    ELSE b.token_outdated_after[1]
             /\ c'[1].client =
                    IF b.client = None THEN [authorization |-> None]
                    ELSE b.client[1]
C9_BuildDefaultsIndependently == [][C9_Step]_vars

\* get_token then build, without config_client: a client holding a token and
\* an unauthenticated transport.
C9_Witness ==
    /\ last_op = "build"
    /\ c[1].access_token = "T0" /\ c[1].refresh_token = "R0"
    /\ c[1].token_outdated_after > UNIX_EPOCH
    /\ c[1].client.authorization = None

\* C10: each get_token and each refresh_token sends exactly one request,
\* also when it fails; config_client and build send none.
C10_Step ==
    /\ last_op' \in {"get_token", "refresh_token"}
          => sent' = sent + 1 /\ last_resp' # None
    /\ last_op' \in {"config_client", "build"}
          => sent' = sent /\ last_resp' = None
C10_OneRequestPerCall == [][C10_Step]_vars

\* A refresh that failed after a fetch: two requests in all.
C10_Witness ==
    /\ last_op = "refresh_token" /\ last_res.kind \in ErrorKinds
    /\ fetched /\ sent = 2

TypeOK ==
    /\ now \in 1..MaxNow
    /\ sent \in 0..MaxSent
    /\ panicked \in BOOLEAN /\ fetched \in BOOLEAN
    /\ last_resp \in {None} \cup {Some(r) : r \in Responses}
====
